---- MODULE Spec2Model ----
(***************************************************************************)
(* Code completion of the nixd language server                             *)
(* (nixd/lib/Controller/Completion.cpp): the bounded accumulator addItem,  *)
(* the scope provider VLACompletionProvider, the external provider         *)
(* NixpkgsCompletionProvider and the two request handlers of Controller.   *)
(*                                                                         *)
(* Strings are sequences of one-character strings; a std::optional<T> is   *)
(* the empty sequence (nullopt) or a one-element sequence.                 *)
(***************************************************************************)
EXTENDS Integers, Sequences, FiniteSets, TLC

\* ------------------------------------------------------------------------
\* Bounds of the model
\* ------------------------------------------------------------------------

\* longest binding / attribute name
MaxNameLen == 4
\* deepest environment chain returned by upEnv
MaxChain == 2
\* threads of the worker pool
PoolSize == 2

\* ------------------------------------------------------------------------
\* Program constants
\* ------------------------------------------------------------------------

MaxCompletionSize == 30

\* ------------------------------------------------------------------------
\* Strings and names
\* ------------------------------------------------------------------------

\* The alphabet of names, in character order ('_' = 0x5f < 'a' = 0x61).
Chars == <<"_", "a">>

\* std::string::starts_with
starts_with(s, p) == Len(p) <= Len(s) /\ SubSeq(s, 1, Len(p)) = p

RECURSIVE NamesFrom(_, _)
\* Every name of length <= n that extends p, p included when it is not
\* empty, in the order of std::string's operator<.
NamesFrom(p, n) ==
    (IF p = <<>> THEN <<>> ELSE <<p>>)
        \o (IF Len(p) < n
              THEN NamesFrom(p \o <<Chars[1]>>, n) \o NamesFrom(p \o <<Chars[2]>>, n)
              ELSE <<>>)

NameList == NamesFrom(<<>>, MaxNameLen)

Range(s) == {s[k] : k \in 1..Len(s)}

\* The names an identifier under the cursor may have: one or two characters.
ShortNames == Range(NamesFrom(<<>>, 2))

\* A generated scope binds every name, or every name with the same first
\* character.
Selectors == {<<>>} \cup {<<Chars[c]>> : c \in 1..Len(Chars)}

RECURSIVE Filter(_, _)
\* The subsequence of names that start with f.
Filter(names, f) ==
    IF names = <<>> THEN <<>>
    ELSE (IF starts_with(Head(names), f) THEN <<Head(names)>> ELSE <<>>)
             \o Filter(Tail(names), f)

\* ------------------------------------------------------------------------
\* Data model
\* ------------------------------------------------------------------------

\* lspserver::CompletionItem: label, kind, detail, documentation, data.
CompletionItem(label, kind, data) ==
    [label |-> label, kind |-> kind, detail |-> <<>>,
     documentation |-> <<>>, data |-> data]

\* lspserver::CompletionList, default constructed.
EmptyList == [isIncomplete |-> FALSE, items |-> <<>>]

\* nixf EnvNode: defs() iterates a std::map in key order; parent() is the
\* tail of the chain, an empty chain is the null EnvNode. The depth of a
\* scope is the length of the chain that starts at it (1: the root).
EnvNode(f, builtin) ==
    [defs |-> [k \in 1..Len(Filter(NameList, f)) |->
                  [Name |-> Filter(NameList, f)[k], isBuiltin |-> builtin]]]

EnvNodes(builtins) == {EnvNode(f, b) : f \in Selectors, b \in builtins}

RECURSIVE ChainsOf(_)
\* Environment chains of n scopes, innermost first; the bindings of the
\* outermost scope may be builtins, those of the inner scopes are not.
ChainsOf(n) ==
    IF n = 0 THEN {<<>>}
    ELSE IF n = 1 THEN {<<e>> : e \in EnvNodes(BOOLEAN)}
    ELSE {<<e>> \o c : e \in EnvNodes({FALSE}), c \in ChainsOf(n - 1)}

EnvChains == UNION {ChainsOf(n) : n \in 0..MaxChain}

parent(Env) == Tail(Env)

\* The node AST->descend() returns: its kind and, for an identifier, its name.
Nodes == {[isIdentifer |-> FALSE, name |-> <<>>]}
             \cup {[isIdentifer |-> TRUE, name |-> n] : n \in ShortNames}

\* ------------------------------------------------------------------------
\* JSON text (a sequence of tokens) and JSON values
\* ------------------------------------------------------------------------

Tok(k, v) == [k |-> k, v |-> v]
StrTok(s) == Tok("str", s)
NumTok == Tok("num", <<>>)
Punct(c) == Tok(c, <<>>)

NullV == [t |-> "null", s |-> <<>>, a |-> <<>>, o |-> <<>>]
StrV(s) == [t |-> "string", s |-> s, a |-> <<>>, o |-> <<>>]
NumV == [t |-> "number", s |-> <<>>, a |-> <<>>, o |-> <<>>]
ArrV(a) == [t |-> "array", s |-> <<>>, a |-> a, o |-> <<>>]
ObjV(o) == [t |-> "object", s |-> <<>>, a |-> <<>>, o |-> o]
Member(key, val) == [key |-> key, val |-> val]

ScopeKey == <<"S", "c", "o", "p", "e">>
PrefixKey == <<"P", "r", "e", "f", "i", "x">>

RECURSIVE WriteValue(_), WriteElems(_), WriteMembers(_)
\* The compact text llvm::formatv("{0}", Value) prints.
WriteValue(V) ==
    CASE V.t = "string" -> <<StrTok(V.s)>>
      [] V.t = "number" -> <<NumTok>>
      [] V.t = "array" -> <<Punct("[")>> \o WriteElems(V.a) \o <<Punct("]")>>
      [] V.t = "object" -> <<Punct("{")>> \o WriteMembers(V.o) \o <<Punct("}")>>
      [] OTHER -> <<Tok("null", <<>>)>>
WriteElems(a) ==
    IF a = <<>> THEN <<>>
    ELSE WriteValue(Head(a))
             \o (IF Len(a) > 1 THEN <<Punct(",")>> \o WriteElems(Tail(a)) ELSE <<>>)
WriteMembers(o) ==
    IF o = <<>> THEN <<>>
    ELSE <<StrTok(Head(o).key), Punct(":")>> \o WriteValue(Head(o).val)
             \o (IF Len(o) > 1 THEN <<Punct(",")>> \o WriteMembers(Tail(o)) ELSE <<>>)

ParseFail == [ok |-> FALSE, val |-> NullV, rest |-> <<>>]
ParseOk(val, rest) == [ok |-> TRUE, val |-> val, rest |-> rest]

RECURSIVE ParseValue(_), ParseElems(_, _), ParseMembers(_, _)
ParseValue(ts) ==
    IF ts = <<>> THEN ParseFail
    ELSE LET h == Head(ts) IN
         CASE h.k = "str" -> ParseOk(StrV(h.v), Tail(ts))
           [] h.k = "num" -> ParseOk(NumV, Tail(ts))
           [] h.k = "null" -> ParseOk(NullV, Tail(ts))
           [] h.k = "[" ->
                IF Len(ts) >= 2 /\ ts[2].k = "]"
                  THEN ParseOk(ArrV(<<>>), SubSeq(ts, 3, Len(ts)))
                  ELSE ParseElems(Tail(ts), <<>>)
           [] h.k = "{" ->
                IF Len(ts) >= 2 /\ ts[2].k = "}"
                  THEN ParseOk(ObjV(<<>>), SubSeq(ts, 3, Len(ts)))
                  ELSE ParseMembers(Tail(ts), <<>>)
           [] OTHER -> ParseFail
ParseElems(ts, acc) ==
    LET r == ParseValue(ts) IN
    IF ~r.ok \/ r.rest = <<>> THEN ParseFail
    ELSE IF Head(r.rest).k = "," THEN ParseElems(Tail(r.rest), Append(acc, r.val))
    ELSE IF Head(r.rest).k = "]" THEN ParseOk(ArrV(Append(acc, r.val)), Tail(r.rest))
    ELSE ParseFail
ParseMembers(ts, acc) ==
    IF Len(ts) < 3 \/ ts[1].k # "str" \/ ts[2].k # ":" THEN ParseFail
    ELSE LET r == ParseValue(SubSeq(ts, 3, Len(ts))) IN
         IF ~r.ok \/ r.rest = <<>> THEN ParseFail
         ELSE IF Head(r.rest).k = ","
           THEN ParseMembers(Tail(r.rest), Append(acc, Member(ts[1].v, r.val)))
         ELSE IF Head(r.rest).k = "}"
           THEN ParseOk(ObjV(Append(acc, Member(ts[1].v, r.val))), Tail(r.rest))
         ELSE ParseFail

\* llvm::json::parse: the whole text must be one value.
parse(text) ==
    LET r == ParseValue(text) IN
    IF r.ok /\ r.rest = <<>> THEN r ELSE ParseFail

\* nixd::AttrPathCompleteParams, default constructed.
EmptyParams == [Scope |-> <<>>, Prefix |-> <<>>]

\* toJSON(const AttrPathCompleteParams &): an object of Scope and Prefix,
\* which llvm::json prints with its keys sorted.
toJSON(Params) ==
    ObjV(<<Member(PrefixKey, StrV(Params.Prefix)),
           Member(ScopeKey, ArrV([k \in 1..Len(Params.Scope) |-> StrV(Params.Scope[k])]))>>)

\* The members of an object that have the key.
Lookup(V, key) == {k \in 1..Len(V.o) : V.o[k].key = key}
Get(V, key) == V.o[CHOOSE k \in Lookup(V, key) : TRUE].val

\* fromJSON(const Value &, AttrPathCompleteParams &, Path): an ObjectMapper
\* that maps Scope, then Prefix, and stops at the first that fails.
fromJSON(V, R) ==
    IF V.t # "object" THEN [ok |-> FALSE, R |-> R]
    ELSE IF Lookup(V, ScopeKey) = {} \/ Get(V, ScopeKey).t # "array"
            \/ \E k \in 1..Len(Get(V, ScopeKey).a) : Get(V, ScopeKey).a[k].t # "string"
      THEN [ok |-> FALSE, R |-> R]
    ELSE LET sc == Get(V, ScopeKey).a
             R1 == [R EXCEPT !.Scope = [k \in 1..Len(sc) |-> sc[k].s]]
         IN  IF Lookup(V, PrefixKey) = {} \/ Get(V, PrefixKey).t # "string"
               THEN [ok |-> FALSE, R |-> R1]
               ELSE [ok |-> TRUE, R |-> [R1 EXCEPT !.Prefix = Get(V, PrefixKey).s]]

\* ------------------------------------------------------------------------
\* Inputs of the requests and answers of the external evaluator
\* ------------------------------------------------------------------------

\* What getScopeAndPrefix may return.
PkgScopes == {<<>>, <<<<"a">>>>}
PkgPrefixes == {<<>>, <<"a">>}
ScopeQueries == {[Scope |-> sc, Prefix |-> p] : sc \in PkgScopes, p \in PkgPrefixes}

\* The names of a successful attrpathComplete reply.
ReplyNames ==
    {Filter(NameList, f) : f \in {<<>>, <<"a">>, <<"a", "_">>, <<"a", "a">>}}

\* nixd::PackageDescription; default constructed, every field is nullopt.
EmptyDesc == [Description |-> <<>>, LongDescription |-> <<>>, Version |-> <<>>]
Descriptions ==
    [Description : {<<>>, <<<<"d">>>>},
     LongDescription : {<<>>, <<<<"l">>>>},
     Version : {<<>>, <<<<"1">>>>}]

\* llvm::Expected<AttrPathCompleteResponse>: an error, or names.
CompleteResponses ==
    {[method |-> "attrpathComplete", ok |-> FALSE, names |-> <<>>, desc |-> EmptyDesc]}
        \cup {[method |-> "attrpathComplete", ok |-> TRUE, names |-> n, desc |-> EmptyDesc] :
                 n \in ReplyNames}

\* llvm::Expected<AttrPathInfoResponse>: an error, or a description.
InfoResponses ==
    {[method |-> "attrpathInfo", ok |-> FALSE, names |-> <<>>, desc |-> EmptyDesc]}
        \cup {[method |-> "attrpathInfo", ok |-> TRUE, names |-> <<>>, desc |-> d] :
                 d \in Descriptions}

\* The data of the item of a resolve request: empty, text that is no JSON,
\* JSON that is no AttrPathCompleteParams, and serialized params.
BadTexts ==
    {<<Punct("{")>>, <<Punct("]")>>, <<StrTok(<<"a">>), StrTok(<<"a">>)>>,
     <<Punct("{"), StrTok(ScopeKey), Punct("}")>>}
OtherJSON ==
    {<<NumTok>>, <<Punct("{"), Punct("}")>>,
     <<Punct("["), StrTok(<<"a">>), Punct("]")>>,
     WriteValue(ObjV(<<Member(ScopeKey, ArrV(<<StrV(<<"a">>)>>))>>)),
     WriteValue(ObjV(<<Member(PrefixKey, StrV(<<"a">>)),
                       Member(ScopeKey, StrV(<<"a">>))>>))}
GoodTexts == {WriteValue(toJSON(q)) : q \in ScopeQueries}
DataTexts == {<<>>} \cup BadTexts \cup OtherJSON \cup GoodTexts

ResolveLabels == {<<"a">>, <<"a", "_">>}
ResolveItems ==
    {CompletionItem(l, k, d) : l \in ResolveLabels, k \in {"Variable", "Field"},
                               d \in DataTexts}

\* ------------------------------------------------------------------------
\* State
\* ------------------------------------------------------------------------

VARIABLES
    pc,        \* per request: where its task is
    task,      \* per request: the captures and locals of its Action; also
               \* lookup (how getTU, getAST and descend ended), origin (for
               \* each item of List, the depth of the scope it came from, 0
               \* for an item of completePackages) and thrown (the number
               \* of ExceedSizeError thrown)
    channel,   \* queries sent to the evaluator whose callback has not run
    sent,      \* per request: every query it sent, in order
    delivered, \* per request: every evaluator response its callbacks received
    replied    \* per request: every reply sent to the editor, in order

vars == <<pc, task, channel, sent, delivered, replied>>

\* The requests of specification Spec: one request in flight.
Requests == {1}
\* The requests of specification SpecConc: two requests in flight.
ConcRequests == {1, 2}

\* More than one request is in flight.
Concurrent == Cardinality(DOMAIN pc) > 1

\* The inputs of two requests in flight: a node that is no identifier in a
\* scope of three bindings, one query, evaluator replies that fail, that
\* bring the names under "aa", or that bring every name, and items to
\* resolve with empty, unparseable and serialized data.
ConcNodes == {[isIdentifer |-> FALSE, name |-> <<>>]}
ConcChains == {<<EnvNode(<<"a", "a", "a">>, FALSE)>>}
ConcQueries == {[Scope |-> <<<<"a">>>>, Prefix |-> <<"a">>]}
ConcCompleteResponses ==
    {[method |-> "attrpathComplete", ok |-> FALSE, names |-> <<>>, desc |-> EmptyDesc]}
        \cup {[method |-> "attrpathComplete", ok |-> TRUE, names |-> n, desc |-> EmptyDesc] :
                 n \in {Filter(NameList, <<"a", "a">>), NameList}}
ConcInfoResponses ==
    {[method |-> "attrpathInfo", ok |-> FALSE, names |-> <<>>, desc |-> EmptyDesc],
     [method |-> "attrpathInfo", ok |-> TRUE, names |-> <<>>,
      desc |-> [Description |-> <<<<"d">>>>, LongDescription |-> <<<<"l">>>>,
                Version |-> <<<<"1">>>>]]}
ConcItems ==
    {CompletionItem(<<"a">>, "Field", d) :
        d \in {<<>>, <<Punct("{")>>, WriteValue(toJSON([Scope |-> <<<<"a">>>>, Prefix |-> <<"a">>]))}}

\* The inputs the environment draws from.
InputNodes == IF Concurrent THEN ConcNodes ELSE Nodes
InputChains == IF Concurrent THEN ConcChains ELSE EnvChains
InputQueries == IF Concurrent THEN ConcQueries ELSE ScopeQueries
InputCompleteResponses == IF Concurrent THEN ConcCompleteResponses ELSE CompleteResponses
InputInfoResponses == IF Concurrent THEN ConcInfoResponses ELSE InfoResponses
InputItems == IF Concurrent THEN ConcItems ELSE ResolveItems

NoTask ==
    [method |-> "none",
     Params |-> CompletionItem(<<>>, "Text", <<>>),
     lookup |-> "", Desc |-> <<>>, Env |-> <<>>, Prefix |-> <<>>, i |-> 1,
     List |-> EmptyList, origin |-> <<>>, thrown |-> 0,
     havePackageScope |-> FALSE, Query |-> EmptyParams, MovedPrefix |-> <<>>,
     Ready |-> 0, Names |-> <<>>, j |-> 1,
     parsed |-> FALSE, decoded |-> FALSE, Req |-> EmptyParams,
     PkgDesc |-> EmptyDesc, Resp |-> CompletionItem(<<>>, "Text", <<>>)]

ListReply(List) == [tag |-> "list", list |-> List,
                    item |-> CompletionItem(<<>>, "Text", <<>>), msg |-> ""]
ItemReply(Item) == [tag |-> "item", list |-> EmptyList, item |-> Item, msg |-> ""]
ErrorReply(msg) == [tag |-> "error", list |-> EmptyList,
                    item |-> CompletionItem(<<>>, "Text", <<>>), msg |-> msg]

Init ==
    /\ pc = [r \in Requests |-> "free"]
    /\ task = [r \in Requests |-> NoTask]
    /\ channel = {}
    /\ sent = [r \in Requests |-> <<>>]
    /\ delivered = [r \in Requests |-> <<>>]
    /\ replied = [r \in Requests |-> <<>>]

\* Tasks that hold a thread of the pool.
Running == {r \in DOMAIN pc : pc[r] \notin {"free", "posted", "done"}}

\* ------------------------------------------------------------------------
\* Bounded collection
\* ------------------------------------------------------------------------

\* addItem with the test off by one.
addItemOffByOne(Items, Item) ==
    IF Len(Items) > MaxCompletionSize
      THEN [thrown |-> TRUE, Items |-> Items]
      ELSE [thrown |-> FALSE, Items |-> Append(Items, Item)]

\* addItem with the test after the insertion.
addItemThenTest(Items, Item) ==
    [thrown |-> Len(Items) + 1 > MaxCompletionSize, Items |-> Append(Items, Item)]

\* addItem: throws ExceedSizeError when the list is full, else appends.
addItem(Items, Item) ==
    IF Len(Items) >= MaxCompletionSize
      THEN [thrown |-> TRUE, Items |-> Items]
      ELSE [thrown |-> FALSE, Items |-> Append(Items, Item)]

\* ------------------------------------------------------------------------
\* Scope provider
\* ------------------------------------------------------------------------

getCompletionItemKind(Def) == IF Def.isBuiltin THEN "Keyword" ELSE "Variable"

RECURSIVE collectDefInnerFirst(_)
\* collectDef with the recursion after the loop.
collectDefInnerFirst(Env) ==
    IF Env = <<>> THEN <<>>
    ELSE [k \in 1..Len(Head(Env).defs) |->
             [Name |-> Head(Env).defs[k].Name, Def |-> Head(Env).defs[k],
              depth |-> Len(Env)]]
             \o collectDefInnerFirst(parent(Env))

RECURSIVE SkipNames(_, _)
SkipNames(order, names) ==
    IF order = <<>> THEN <<>>
    ELSE (IF Head(order).Name \in names THEN <<>> ELSE <<Head(order)>>)
             \o SkipNames(Tail(order), names)

RECURSIVE collectDefShadowed(_)
\* collectDef that leaves out the bindings a descendant scope shadows.
collectDefShadowed(Env) ==
    IF Env = <<>> THEN <<>>
    ELSE SkipNames(collectDefShadowed(parent(Env)),
                   {Head(Env).defs[k].Name : k \in 1..Len(Head(Env).defs)})
             \o [k \in 1..Len(Head(Env).defs) |->
                    [Name |-> Head(Env).defs[k].Name, Def |-> Head(Env).defs[k],
                     depth |-> Len(Env)]]

RECURSIVE collectDefOrder(_)
\* The bindings in the order the loop of collectDef meets them: those of
\* the ancestors first, then the scope's own.
collectDefOrder(Env) ==
    IF Env = <<>> THEN <<>>
    ELSE collectDefOrder(parent(Env))
             \o [k \in 1..Len(Head(Env).defs) |->
                    [Name |-> Head(Env).defs[k].Name, Def |-> Head(Env).defs[k],
                     depth |-> Len(Env)]]

\* The prefix VLACompletionProvider::complete derives from the node.
PrefixOf(Desc) == IF Desc.isIdentifer THEN Desc.name ELSE <<>>

\* ------------------------------------------------------------------------
\* Dispatch thread
\* ------------------------------------------------------------------------

\* An onCompletion that runs only while no query is unanswered.
onCompletionWaits(r) ==
    /\ pc[r] = "free"
    /\ channel = {}
    /\ pc' = [pc EXCEPT ![r] = "posted"]
    /\ task' = [task EXCEPT ![r].method = "completion"]
    /\ UNCHANGED <<channel, sent, delivered, replied>>

\* Controller::onCompletion: post the Action to the pool.
onCompletion(r) ==
    /\ pc[r] = "free"
    /\ pc' = [pc EXCEPT ![r] = "posted"]
    /\ task' = [task EXCEPT ![r].method = "completion"]
    /\ UNCHANGED <<channel, sent, delivered, replied>>

\* Controller::onCompletionItemResolve: post the Action to the pool.
onCompletionItemResolve(r) ==
    /\ pc[r] = "free"
    /\ \E item \in InputItems :
          task' = [task EXCEPT ![r].method = "resolve", ![r].Params = item]
    /\ pc' = [pc EXCEPT ![r] = "posted"]
    /\ UNCHANGED <<channel, sent, delivered, replied>>

\* ------------------------------------------------------------------------
\* The Action of a completion request
\* ------------------------------------------------------------------------

\* getTU or getAST finds nothing and replies the error itself.
LookupFails(r) ==
    /\ pc[r] = "posted" /\ task[r].method = "completion"
    /\ Cardinality(Running) < PoolSize
    /\ \E what \in {"no TU", "no AST"} :
          /\ replied' = [replied EXCEPT ![r] = Append(@, ErrorReply(what))]
          /\ task' = [task EXCEPT ![r].lookup = what]
    /\ pc' = [pc EXCEPT ![r] = "done"]
    /\ UNCHANGED <<channel, sent, delivered>>

\* The branch of a null Desc without its return.
DescendFailsNoReturn(r) ==
    /\ pc[r] = "posted" /\ task[r].method = "completion"
    /\ Cardinality(Running) < PoolSize
    /\ replied' = [replied EXCEPT ![r] =
           Append(@, ErrorReply("cannot find corresponding node on given position"))]
    /\ task' = [task EXCEPT ![r].lookup = "no node"]
    /\ pc' = [pc EXCEPT ![r] = "reply"]
    /\ UNCHANGED <<channel, sent, delivered>>

\* AST->descend finds no node.
DescendFails(r) ==
    /\ pc[r] = "posted" /\ task[r].method = "completion"
    /\ Cardinality(Running) < PoolSize
    /\ replied' = [replied EXCEPT ![r] =
           Append(@, ErrorReply("cannot find corresponding node on given position"))]
    /\ task' = [task EXCEPT ![r].lookup = "no node"]
    /\ pc' = [pc EXCEPT ![r] = "done"]
    /\ UNCHANGED <<channel, sent, delivered>>

\* AST->descend finds the node; the list is constructed.
Descend(r) ==
    /\ pc[r] = "posted" /\ task[r].method = "completion"
    /\ Cardinality(Running) < PoolSize
    /\ \E node \in InputNodes :
          task' = [task EXCEPT ![r].lookup = "node", ![r].Desc = <<node>>,
                               ![r].List = EmptyList]
    /\ pc' = [pc EXCEPT ![r] = "complete"]
    /\ UNCHANGED <<channel, sent, delivered, replied>>

\* VLACompletionProvider::complete, up to the call of collectDef.
complete(r) ==
    /\ pc[r] = "complete"
    /\ \E Env \in InputChains :
          task' = [task EXCEPT ![r].Prefix = PrefixOf(task[r].Desc[1]),
                               ![r].Env = Env, ![r].i = 1]
    /\ pc' = [pc EXCEPT ![r] = "collectDef"]
    /\ UNCHANGED <<channel, sent, delivered, replied>>

\* One iteration of the loop of collectDef, or its end.
collectDef(r) ==
    /\ pc[r] = "collectDef"
    /\ LET order == collectDefOrder(task[r].Env)
           t == task[r]
       IN  IF t.i > Len(order)
             THEN /\ pc' = [pc EXCEPT ![r] = "havePackageScope"]
                  /\ task' = task
             ELSE LET Name == order[t.i].Name
                      Def == order[t.i].Def
                  IN  IF starts_with(Name, <<"_", "_">>) \/ ~starts_with(Name, t.Prefix)
                        THEN /\ task' = [task EXCEPT ![r].i = @ + 1]
                             /\ pc' = pc
                        ELSE LET res == addItem(t.List.items,
                                            CompletionItem(Name, getCompletionItemKind(Def), <<>>))
                             IN  IF res.thrown
                                   THEN /\ task' = [task EXCEPT ![r].thrown = @ + 1,
                                                                ![r].List.items = res.Items]
                                        /\ pc' = [pc EXCEPT ![r] = "catch"]
                                   ELSE /\ task' = [task EXCEPT
                                               ![r].i = @ + 1,
                                               ![r].List.items = res.Items,
                                               ![r].origin = Append(@, order[t.i].depth)]
                                        /\ pc' = pc
    /\ UNCHANGED <<channel, sent, delivered, replied>>

\* The external provider invoked whatever havePackageScope says.
NoPackageScopeAsks(r) ==
    /\ pc[r] = "havePackageScope"
    /\ task' = [task EXCEPT ![r].havePackageScope = FALSE,
                            ![r].Ready = 0, ![r].Names = <<>>]
    /\ channel' = channel \cup {[id |-> r, method |-> "attrpathComplete",
                                 Scope |-> <<>>, Prefix |-> <<>>]}
    /\ sent' = [sent EXCEPT ![r] = Append(@, [method |-> "attrpathComplete",
                                              Scope |-> <<>>, Prefix |-> <<>>])]
    /\ pc' = [pc EXCEPT ![r] = "acquire"]
    /\ UNCHANGED <<delivered, replied>>

\* havePackageScope is false: nothing is appended.
NoPackageScope(r) ==
    /\ pc[r] = "havePackageScope"
    /\ task' = [task EXCEPT ![r].havePackageScope = FALSE]
    /\ pc' = [pc EXCEPT ![r] = "reply"]
    /\ UNCHANGED <<channel, sent, delivered, replied>>

\* A std::string after std::move: valid but unspecified; the standard
\* libraries leave it empty, a copying move leaves it as it was.
MovedFrom(s) == {<<>>, s}

\* havePackageScope is true: completePackages moves Scope and Prefix into
\* Params (task.Query) and sends its query; its parameter Prefix
\* (task.MovedPrefix) is what the move left.
completePackages(r) ==
    /\ pc[r] = "havePackageScope"
    /\ \E q \in InputQueries : \E moved \in MovedFrom(q.Prefix) :
          /\ task' = [task EXCEPT ![r].havePackageScope = TRUE, ![r].Query = q,
                                  ![r].MovedPrefix = moved,
                                  ![r].Ready = 0, ![r].Names = <<>>]
          /\ channel' = channel \cup
                 {[id |-> r, method |-> "attrpathComplete", Scope |-> q.Scope,
                   Prefix |-> q.Prefix]}
          /\ sent' = [sent EXCEPT ![r] =
                 Append(@, [method |-> "attrpathComplete", Scope |-> q.Scope,
                            Prefix |-> q.Prefix])]
    /\ pc' = [pc EXCEPT ![r] = "acquire"]
    /\ UNCHANGED <<delivered, replied>>

\* An OnReply that marks the list incomplete when the evaluator fails.
OnReplyCompleteMarks(t, Resp) ==
    [t EXCEPT !.Names = IF Resp.ok THEN Resp.names ELSE @,
              !.List.isIncomplete = IF Resp.ok THEN @ ELSE TRUE,
              !.Ready = 1]

\* The OnReply of completePackages: an error is logged, names are copied
\* to Names; Ready is released.
OnReplyComplete(t, Resp) ==
    [t EXCEPT !.Names = IF Resp.ok THEN Resp.names ELSE @, !.Ready = 1]

\* One Names and one Ready shared by the provider: OnReply writes to every
\* request that waits.
attrpathCompleteReplyShared(r) ==
    /\ \E q \in channel : q.id = r /\ q.method = "attrpathComplete"
    /\ channel' = {q \in channel : q.id # r}
    /\ \E Resp \in InputCompleteResponses :
          /\ task' = [o \in DOMAIN task |->
                         IF o = r \/ pc[o] = "acquire"
                           THEN OnReplyComplete(task[o], Resp) ELSE task[o]]
          /\ delivered' = [delivered EXCEPT ![r] = Append(@, Resp)]
    /\ UNCHANGED <<pc, sent, replied>>

\* The evaluator answers attrpathComplete: OnReply runs.
attrpathCompleteReply(r) ==
    /\ \E q \in channel : q.id = r /\ q.method = "attrpathComplete"
    /\ channel' = {q \in channel : q.id # r}
    /\ \E Resp \in InputCompleteResponses :
          /\ task' = [task EXCEPT ![r] = OnReplyComplete(@, Resp)]
          /\ delivered' = [delivered EXCEPT ![r] = Append(@, Resp)]
    /\ UNCHANGED <<pc, sent, replied>>

\* An acquire that returns without a release.
acquireNamesNoWait(r) ==
    /\ pc[r] = "acquire"
    /\ task' = [task EXCEPT ![r].Ready = 0, ![r].j = 1]
    /\ pc' = [pc EXCEPT ![r] = "fill"]
    /\ UNCHANGED <<channel, sent, delivered, replied>>

\* Ready.acquire() of completePackages returns.
acquireNames(r) ==
    /\ pc[r] = "acquire"
    /\ task[r].Ready = 1
    /\ task' = [task EXCEPT ![r].Ready = 0, ![r].j = 1]
    /\ pc' = [pc EXCEPT ![r] = "fill"]
    /\ UNCHANGED <<channel, sent, delivered, replied>>

\* An item whose data keeps the scope of the query and drops its prefix.
FieldItemScopeOnly(Name, Params) ==
    CompletionItem(Name, "Field", WriteValue(toJSON([Params EXCEPT !.Prefix = <<>>])))

\* The item completePackages makes of a name.
FieldItem(Name, Params) == CompletionItem(Name, "Field", WriteValue(toJSON(Params)))

\* One iteration of the loop of completePackages over Names, or its end.
fillItems(r) ==
    /\ pc[r] = "fill"
    /\ LET t == task[r]
       IN  IF t.j > Len(t.Names)
             THEN /\ pc' = [pc EXCEPT ![r] = "reply"]
                  /\ task' = task
             ELSE IF ~starts_with(t.Names[t.j], t.MovedPrefix)
               THEN /\ task' = [task EXCEPT ![r].j = @ + 1]
                    /\ pc' = pc
               ELSE LET res == addItem(t.List.items, FieldItem(t.Names[t.j], t.Query))
                    IN  IF res.thrown
                          THEN /\ task' = [task EXCEPT ![r].thrown = @ + 1,
                                                       ![r].List.items = res.Items]
                               /\ pc' = [pc EXCEPT ![r] = "catch"]
                          ELSE /\ task' = [task EXCEPT ![r].j = @ + 1,
                                                       ![r].List.items = res.Items,
                                                       ![r].origin = Append(@, 0)]
                               /\ pc' = pc
    /\ UNCHANGED <<channel, sent, delivered, replied>>

\* The catch block without its assignment.
catchExceedSizeSilent(r) ==
    /\ pc[r] = "catch"
    /\ pc' = [pc EXCEPT ![r] = "reply"]
    /\ UNCHANGED <<task, channel, sent, delivered, replied>>

\* A catch around the scope provider alone: after its throw the external
\* provider is still consulted.
catchExceedSizeResumes(r) ==
    /\ pc[r] = "catch"
    /\ task' = [task EXCEPT ![r].List.isIncomplete = TRUE]
    /\ pc' = [pc EXCEPT ![r] = IF task[r].havePackageScope THEN "reply"
                                                           ELSE "havePackageScope"]
    /\ UNCHANGED <<channel, sent, delivered, replied>>

\* catch (ExceedSizeError &)
catchExceedSize(r) ==
    /\ pc[r] = "catch"
    /\ task' = [task EXCEPT ![r].List.isIncomplete = TRUE]
    /\ pc' = [pc EXCEPT ![r] = "reply"]
    /\ UNCHANGED <<channel, sent, delivered, replied>>

\* Reply(std::move(List))
replyList(r) ==
    /\ pc[r] = "reply"
    /\ replied' = [replied EXCEPT ![r] = Append(@, ListReply(task[r].List))]
    /\ pc' = [pc EXCEPT ![r] = "done"]
    /\ UNCHANGED <<task, channel, sent, delivered>>

\* ------------------------------------------------------------------------
\* The Action of a resolve request
\* ------------------------------------------------------------------------

\* The Action without the test of empty data: the parse of the empty text
\* fails.
resolveNoDataParsed(r) ==
    /\ pc[r] = "posted" /\ task[r].method = "resolve"
    /\ Cardinality(Running) < PoolSize
    /\ task[r].Params.data = <<>>
    /\ replied' = [replied EXCEPT ![r] = Append(@, ErrorReply("json parse error"))]
    /\ pc' = [pc EXCEPT ![r] = "done"]
    /\ UNCHANGED <<task, channel, sent, delivered>>

\* Params.data.empty(): the item is replied as it came.
resolveNoData(r) ==
    /\ pc[r] = "posted" /\ task[r].method = "resolve"
    /\ Cardinality(Running) < PoolSize
    /\ task[r].Params.data = <<>>
    /\ replied' = [replied EXCEPT ![r] = Append(@, ItemReply(task[r].Params))]
    /\ pc' = [pc EXCEPT ![r] = "done"]
    /\ UNCHANGED <<task, channel, sent, delivered>>

\* What the Action of onCompletionItemResolve does with data that is not
\* empty: the error of llvm::json::parse is replied; the result of fromJSON
\* is not looked at.
DecodeData(data) ==
    LET EV == parse(data)
        dec == fromJSON(EV.val, EmptyParams)
    IN  IF ~EV.ok
          THEN [error |-> TRUE, parsed |-> FALSE, decoded |-> FALSE, Req |-> EmptyParams]
          ELSE [error |-> FALSE, parsed |-> TRUE, decoded |-> dec.ok, Req |-> dec.R]

\* DecodeData of every data an item can carry, computed once.
Decoded == [data \in DataTexts |-> DecodeData(data)]

\* llvm::json::parse fails: its error is replied.
resolveParseError(r) ==
    /\ pc[r] = "posted" /\ task[r].method = "resolve"
    /\ Cardinality(Running) < PoolSize
    /\ task[r].Params.data # <<>>
    /\ Decoded[task[r].Params.data].error
    /\ replied' = [replied EXCEPT ![r] = Append(@, ErrorReply("json parse error"))]
    /\ pc' = [pc EXCEPT ![r] = "done"]
    /\ UNCHANGED <<task, channel, sent, delivered>>

\* The path resolvePackage asks about: Scope.emplace_back(Name).
InfoPath(Scope, Name) == Append(Scope, Name)

\* The data parses: fromJSON fills Req, Resp is a copy of Params and
\* resolvePackage sends its query.
resolvePackage(r) ==
    /\ pc[r] = "posted" /\ task[r].method = "resolve"
    /\ Cardinality(Running) < PoolSize
    /\ task[r].Params.data # <<>>
    /\ LET d == Decoded[task[r].Params.data]
           q == [method |-> "attrpathInfo",
                 Scope |-> InfoPath(d.Req.Scope, task[r].Params.label),
                 Prefix |-> <<>>]
       IN  /\ ~d.error
           /\ task' = [task EXCEPT ![r].parsed = d.parsed, ![r].decoded = d.decoded,
                                   ![r].Req = d.Req, ![r].Resp = task[r].Params,
                                   ![r].Ready = 0, ![r].PkgDesc = EmptyDesc]
           /\ channel' = channel \cup
                  {[id |-> r, method |-> q.method, Scope |-> q.Scope, Prefix |-> q.Prefix]}
           /\ sent' = [sent EXCEPT ![r] = Append(@, q)]
    /\ pc' = [pc EXCEPT ![r] = "acquireInfo"]
    /\ UNCHANGED <<delivered, replied>>

\* An OnReply that releases Ready only when there is a response.
OnReplyInfoHolds(t, Resp) ==
    [t EXCEPT !.PkgDesc = IF Resp.ok THEN Resp.desc ELSE @,
              !.Ready = IF Resp.ok THEN 1 ELSE @]

\* The OnReply of resolvePackage: a response is copied to Desc; Ready is
\* released.
OnReplyInfo(t, Resp) ==
    [t EXCEPT !.PkgDesc = IF Resp.ok THEN Resp.desc ELSE @, !.Ready = 1]

\* The evaluator answers attrpathInfo: OnReply runs.
attrpathInfoReply(r) ==
    /\ \E q \in channel : q.id = r /\ q.method = "attrpathInfo"
    /\ channel' = {q \in channel : q.id # r}
    /\ \E Resp \in InputInfoResponses :
          /\ task' = [task EXCEPT ![r] = OnReplyInfo(@, Resp)]
          /\ delivered' = [delivered EXCEPT ![r] = Append(@, Resp)]
    /\ UNCHANGED <<pc, sent, replied>>

value_or(opt, default) == IF opt = <<>> THEN default ELSE opt[1]

\* resolvePackage that also spends the data of the item.
FormatDropsData(Item, Desc) ==
    [Item EXCEPT
        !.documentation =
            <<[kind |-> "markdown",
               value |-> value_or(Desc.Description, <<>>) \o <<"\n", "\n">>
                             \o value_or(Desc.LongDescription, <<>>)]>>,
        !.detail = value_or(Desc.Version, <<"?">>),
        !.data = <<>>]

\* resolvePackage with an empty detail when there is no version.
FormatNoPlaceholder(Item, Desc) ==
    [Item EXCEPT
        !.documentation =
            <<[kind |-> "markdown",
               value |-> value_or(Desc.Description, <<>>) \o <<"\n", "\n">>
                             \o value_or(Desc.LongDescription, <<>>)]>>,
        !.detail = value_or(Desc.Version, <<>>)]

\* The documentation and the detail resolvePackage writes into the item.
Format(Item, Desc) ==
    [Item EXCEPT
        !.documentation =
            <<[kind |-> "markdown",
               value |-> value_or(Desc.Description, <<>>) \o <<"\n", "\n">>
                             \o value_or(Desc.LongDescription, <<>>)]>>,
        !.detail = value_or(Desc.Version, <<"?">>)]

\* Ready.acquire() of resolvePackage returns and the item is formatted.
acquireInfo(r) ==
    /\ pc[r] = "acquireInfo"
    /\ task[r].Ready = 1
    /\ task' = [task EXCEPT ![r].Ready = 0,
                            ![r].Resp = Format(@, task[r].PkgDesc)]
    /\ pc' = [pc EXCEPT ![r] = "replyItem"]
    /\ UNCHANGED <<channel, sent, delivered, replied>>

\* Reply(std::move(Resp))
replyItem(r) ==
    /\ pc[r] = "replyItem"
    /\ replied' = [replied EXCEPT ![r] = Append(@, ItemReply(task[r].Resp))]
    /\ pc' = [pc EXCEPT ![r] = "done"]
    /\ UNCHANGED <<task, channel, sent, delivered>>

\* ------------------------------------------------------------------------
\* Specification
\* ------------------------------------------------------------------------

Next ==
    \E r \in DOMAIN pc :
        \/ onCompletion(r)
        \/ onCompletionItemResolve(r)
        \/ LookupFails(r)
        \/ DescendFails(r)
        \/ Descend(r)
        \/ complete(r)
        \/ collectDef(r)
        \/ NoPackageScope(r)
        \/ completePackages(r)
        \/ attrpathCompleteReply(r)
        \/ acquireNames(r)
        \/ fillItems(r)
        \/ catchExceedSize(r)
        \/ replyList(r)
        \/ resolveNoData(r)
        \/ resolveParseError(r)
        \/ resolvePackage(r)
        \/ attrpathInfoReply(r)
        \/ acquireInfo(r)
        \/ replyItem(r)

Spec == Init /\ [][Next]_vars

\* Two requests in flight on a pool of PoolSize threads.
InitConc ==
    /\ pc = [r \in ConcRequests |-> "free"]
    /\ task = [r \in ConcRequests |-> NoTask]
    /\ channel = {}
    /\ sent = [r \in ConcRequests |-> <<>>]
    /\ delivered = [r \in ConcRequests |-> <<>>]
    /\ replied = [r \in ConcRequests |-> <<>>]

SpecConc == InitConc /\ [][Next]_vars

\* A step of the pool thread that runs the Action of request r.
Worker(r) ==
    \/ LookupFails(r) \/ DescendFails(r) \/ Descend(r) \/ complete(r)
    \/ collectDef(r) \/ NoPackageScope(r) \/ completePackages(r)
    \/ acquireNames(r) \/ fillItems(r) \/ catchExceedSize(r) \/ replyList(r)
    \/ resolveNoData(r) \/ resolveParseError(r) \/ resolvePackage(r)
    \/ acquireInfo(r) \/ replyItem(r)

\* The evaluator invokes the reply callback of the query of request r.
Evaluator(r) == attrpathCompleteReply(r) \/ attrpathInfoReply(r)

\* SpecConc with a fair pool and an evaluator that answers every query.
SpecFair ==
    /\ SpecConc
    /\ \A r \in ConcRequests : WF_vars(Worker(r)) /\ WF_vars(Evaluator(r))

\* ------------------------------------------------------------------------
\* Properties
\* ------------------------------------------------------------------------

Dunder == <<"_", "_">>

\* Request r has replied a CompletionList.
RepliedList(r) == replied[r] # <<>> /\ replied[r][1].tag = "list"

\* The node of request r is known.
HasNode(r) == task[r].method = "completion" /\ task[r].lookup = "node"

\* The prefix of the node: its text when it is an identifier, else empty.
NodePrefix(r) ==
    IF task[r].Desc[1].isIdentifer THEN task[r].Desc[1].name ELSE <<>>

\* The bindings of the chain that match: <<index of the scope, index of the
\* binding>>.
LocalMatches(r) ==
    {<<d, k>> \in (1..Len(task[r].Env)) \X (1..Len(NameList)) :
        /\ k <= Len(task[r].Env[d].defs)
        /\ starts_with(task[r].Env[d].defs[k].Name, NodePrefix(r))
        /\ ~starts_with(task[r].Env[d].defs[k].Name, Dunder)}

\* The names the evaluator returned that pass the test of completePackages.
ExternalMatches(r) ==
    IF task[r].havePackageScope /\ delivered[r] # <<>> /\ delivered[r][1].ok
      THEN {k \in 1..Len(delivered[r][1].names) :
               starts_with(delivered[r][1].names[k], task[r].MovedPrefix)}
      ELSE {}

\* The scope provider has ended, by a return or by a throw, and the worker
\* is not inside completePackages: the list is the output of the scope
\* provider, or the list about to be replied, or the list replied.
ScopeProviderEnded(r) ==
    /\ HasNode(r)
    /\ pc[r] \in {"havePackageScope", "catch", "reply", "done"}

\* The scope provider has returned from collectDef without a throw.
CollectDone(r) ==
    /\ ScopeProviderEnded(r)
    /\ task[r].i > Len(collectDefOrder(task[r].Env))

\* C1: the list of a completion request never holds more than 30 items:
\* not while the scope provider or the external provider collects, and not
\* in a replied list.
C1_AtMostThirty ==
    \A r \in DOMAIN pc :
        /\ Len(task[r].List.items) <= 30
        /\ \A k \in 1..Len(replied[r]) : Len(replied[r][k].list.items) <= 30

\* A full list is replied after completePackages met the bound.
C1_Witness ==
    \E r \in DOMAIN pc :
        /\ RepliedList(r)
        /\ Len(replied[r][1].list.items) = 30
        /\ task[r].thrown = 1
        /\ task[r].origin[1] > 0
        /\ task[r].origin[30] = 0

\* C2: a replied list has isIncomplete set exactly when an insertion was
\* rejected by the bound; it is not set when the admitted candidates (the
\* matching bindings and, if the evaluator answered, its matching names)
\* number 30 or fewer, whether or not the evaluator failed.
C2_IncompleteIffRejected ==
    \A r \in DOMAIN pc :
        RepliedList(r) =>
            /\ replied[r][1].list.isIncomplete <=> task[r].thrown > 0
            /\ Cardinality(LocalMatches(r)) + Cardinality(ExternalMatches(r)) <= 30
                   => ~replied[r][1].list.isIncomplete
            /\ (delivered[r] # <<>> /\ ~delivered[r][1].ok)
                   => ~replied[r][1].list.isIncomplete

\* Exactly 30 candidates of both providers are replied as a complete list.
C2_Witness ==
    \E r \in DOMAIN pc :
        /\ RepliedList(r)
        /\ Len(replied[r][1].list.items) = 30
        /\ ~replied[r][1].list.isIncomplete
        /\ ExternalMatches(r) # {}
        /\ LocalMatches(r) # {}

\* C3: when more than 30 bindings of the chain match, the reply is a list
\* of exactly 30 items with isIncomplete set.
C3_MoreThanThirtyLocal ==
    \A r \in DOMAIN pc :
        (RepliedList(r) /\ Cardinality(LocalMatches(r)) > 30) =>
            /\ Len(replied[r][1].list.items) = 30
            /\ replied[r][1].list.isIncomplete

\* A list is replied for a chain of two scopes with more than 30 matches,
\* the bound being met in the inner scope.
C3_Witness ==
    \E r \in DOMAIN pc :
        /\ RepliedList(r)
        /\ Cardinality(LocalMatches(r)) > 30
        /\ Len(task[r].Env) = 2
        /\ task[r].origin[30] = 2

\* C4: once the scope provider has ended, every item it emitted is
\* labelled with a binding of the scope it came from, starts with the
\* prefix of the node (its text when it is an identifier, else empty) and
\* does not start with "__"; items of an ancestor scope come before those
\* of a descendant scope.
C4_ScopeItems ==
    \A r \in DOMAIN pc :
        ScopeProviderEnded(r) =>
            LET items == task[r].List.items
                origin == task[r].origin
                Env == task[r].Env
            IN  /\ Len(origin) = Len(items)
                /\ \A k \in 1..Len(items) :
                      origin[k] > 0 =>
                          /\ origin[k] <= Len(Env)
                          /\ \E b \in 1..Len(Env[Len(Env) - origin[k] + 1].defs) :
                                Env[Len(Env) - origin[k] + 1].defs[b].Name = items[k].label
                          /\ starts_with(items[k].label, NodePrefix(r))
                          /\ ~starts_with(items[k].label, Dunder)
                /\ \A a, b \in 1..Len(items) :
                      (a < b /\ origin[a] > 0 /\ origin[b] > 0) => origin[a] <= origin[b]

\* Under an identifier, items of the root scope and of an inner scope are
\* replied.
C4_Witness ==
    \E r \in DOMAIN pc :
        /\ RepliedList(r)
        /\ task[r].Desc[1].isIdentifer
        /\ \E a, b \in 1..Len(task[r].origin) :
              task[r].origin[a] = 1 /\ task[r].origin[b] = 2

\* C5: when the scope provider returns without meeting the bound, a
\* matching name bound in k scopes of the chain labels exactly k of its
\* items.
C5_NoDeduplication ==
    \A r \in DOMAIN pc :
        CollectDone(r) =>
            \A n \in Range(NameList) :
                (starts_with(n, NodePrefix(r)) /\ ~starts_with(n, Dunder)) =>
                    Cardinality({k \in 1..Len(task[r].List.items) :
                                    task[r].origin[k] > 0 /\ task[r].List.items[k].label = n})
                        = Cardinality({d \in 1..Len(task[r].Env) :
                                          \E b \in 1..Len(task[r].Env[d].defs) :
                                              task[r].Env[d].defs[b].Name = n})

\* A name bound in both scopes of the chain is replied twice.
C5_Witness ==
    \E r \in DOMAIN pc :
        /\ CollectDone(r)
        /\ RepliedList(r)
        /\ \E a, b \in 1..Len(task[r].origin) :
              /\ task[r].origin[a] = 1 /\ task[r].origin[b] = 2
              /\ replied[r][1].list.items[a].label = replied[r][1].list.items[b].label

\* The items the bindings of one scope give under prefix P.
ScopeItemsOf(e, P) ==
    LET hits == SelectSeq(e.defs,
                    LAMBDA d : starts_with(d.Name, P) /\ ~starts_with(d.Name, Dunder))
    IN  [k \in 1..Len(hits) |->
            CompletionItem(hits[k].Name,
                           IF hits[k].isBuiltin THEN "Keyword" ELSE "Variable", <<>>)]

RECURSIVE ScopeItems(_, _)
\* The items of the matching bindings of a chain, outermost scope first.
ScopeItems(Env, P) ==
    IF Env = <<>> THEN <<>>
    ELSE ScopeItems(Tail(Env), P) \o ScopeItemsOf(Head(Env), P)

NoNodeError == ErrorReply("cannot find corresponding node on given position")

\* C6: when the position resolves to no node, the request replies the "no
\* corresponding node" error and nothing else: no list, no provider runs,
\* no query is sent.
C6_NoNode ==
    \A r \in DOMAIN pc :
        task[r].lookup = "no node" =>
            /\ pc[r] = "done"
            /\ replied[r] = <<NoNodeError>>
            /\ sent[r] = <<>>
            /\ \A q \in channel : q.id # r
            /\ task[r].List = EmptyList /\ task[r].Env = <<>> /\ task[r].i = 1

\* A completion request has found no node and replied.
C6_Witness ==
    \E r \in DOMAIN pc :
        /\ task[r].method = "completion"
        /\ task[r].lookup = "no node"
        /\ replied[r] # <<>>

\* The evaluator answered the attrpathComplete of request r with an error.
CompleteFailed(r) ==
    /\ task[r].method = "completion"
    /\ delivered[r] # <<>>
    /\ ~delivered[r][1].ok

\* C7: when the evaluator fails attrpathComplete, the request replies a
\* list and no error; the list holds exactly the items of the scope
\* provider, no Field item, and isIncomplete is what the scope provider
\* alone gives.
C7_EvaluatorFailure ==
    \A r \in DOMAIN pc :
        CompleteFailed(r) =>
            /\ \A k \in 1..Len(replied[r]) : replied[r][k].tag = "list"
            /\ \A k \in 1..Len(task[r].List.items) : task[r].List.items[k].kind # "Field"
            /\ pc[r] \notin {"acquire", "fill", "reply"} =>
                  /\ pc[r] = "done"
                  /\ Len(replied[r]) = 1
                  /\ replied[r][1].list.items = ScopeItems(task[r].Env, NodePrefix(r))
                  /\ replied[r][1].list.isIncomplete
                         <=> Cardinality(LocalMatches(r)) > 30

\* After a failure of the evaluator a list with items is replied.
C7_Witness ==
    \E r \in DOMAIN pc :
        /\ CompleteFailed(r)
        /\ RepliedList(r)
        /\ replied[r][1].list.items # <<>>
        /\ Len(task[r].Env) = 2

\* C8: resolving an item with empty data replies the item unchanged and
\* sends no query; every item of the scope provider has empty data.
C8_EmptyData ==
    /\ \A r \in DOMAIN pc :
          (task[r].method = "resolve" /\ task[r].Params.data = <<>>) =>
              /\ sent[r] = <<>>
              /\ \A q \in channel : q.id # r
              /\ pc[r] # "posted" =>
                    pc[r] = "done" /\ replied[r] = <<ItemReply(task[r].Params)>>
    /\ \A r \in DOMAIN pc :
          \A k \in 1..Len(task[r].List.items) :
              task[r].origin[k] > 0 => task[r].List.items[k].data = <<>>

\* An item of kind Variable with empty data has been resolved.
C8_Witness ==
    \E r \in DOMAIN pc :
        /\ task[r].method = "resolve"
        /\ task[r].Params.data = <<>>
        /\ task[r].Params.kind = "Variable"
        /\ replied[r] # <<>>

\* The text is a serialized AttrPathCompleteParams.
ValidData(data) == parse(data).ok /\ fromJSON(parse(data).val, EmptyParams).ok

\* C9: resolving an item whose data is not empty and is no valid
\* serialized query (no JSON, or JSON that is no scope and prefix) replies
\* an error and sends no attrpathInfo query.
C9_MalformedDataIsError ==
    \A r \in DOMAIN pc :
        (task[r].method = "resolve" /\ task[r].Params.data # <<>>
             /\ ~ValidData(task[r].Params.data)) =>
            /\ sent[r] = <<>>
            /\ pc[r] # "posted" =>
                  /\ pc[r] = "done"
                  /\ Len(replied[r]) = 1
                  /\ replied[r][1].tag = "error"

\* C10: resolving an item with valid data replies an item whose detail is
\* the version of the attrpathInfo response, "?" when it is absent, and
\* whose documentation is the description, a blank line and the long
\* description, an absent field giving nothing; when the evaluator fails,
\* all three fields count as absent and an item is replied all the same.
C10_ResolveFormat ==
    \A r \in DOMAIN pc :
        (task[r].method = "resolve" /\ ValidData(task[r].Params.data)) =>
            /\ \A k \in 1..Len(replied[r]) : replied[r][k].tag = "item"
            /\ pc[r] = "done" =>
                  /\ Len(replied[r]) = 1
                  /\ Len(delivered[r]) = 1
                  /\ LET resp == delivered[r][1]
                         version == IF resp.ok THEN resp.desc.Version ELSE <<>>
                         short == IF resp.ok THEN resp.desc.Description ELSE <<>>
                         long == IF resp.ok THEN resp.desc.LongDescription ELSE <<>>
                         item == replied[r][1].item
                     IN  /\ item.detail = IF version = <<>> THEN <<"?">> ELSE version[1]
                         /\ Len(item.documentation) = 1
                         /\ item.documentation[1].value
                                = (IF short = <<>> THEN <<>> ELSE short[1])
                                      \o <<"\n", "\n">>
                                      \o (IF long = <<>> THEN <<>> ELSE long[1])

\* An item with valid data is resolved against a response that has a
\* description and no version.
C10_Witness ==
    \E r \in DOMAIN pc :
        /\ task[r].method = "resolve"
        /\ ValidData(task[r].Params.data)
        /\ pc[r] = "done"
        /\ delivered[r][1].ok
        /\ delivered[r][1].desc.Version = <<>>
        /\ delivered[r][1].desc.Description # <<>>

\* C11: every item completePackages appends has kind Field and a label that
\* starts with the prefix of the query; names of the reply that do not start
\* with the prefix are never added.
C11_FieldItemsMatchPrefix ==
    \A r \in DOMAIN pc :
        \A k \in 1..Len(task[r].origin) :
            task[r].origin[k] = 0 =>
                /\ task[r].List.items[k].kind = "Field"
                /\ starts_with(task[r].List.items[k].label, task[r].Query.Prefix)

\* What does hold: the items of completePackages have kind Field and pass
\* the test against what the move left of Prefix.
FieldItemsMatchMoved ==
    \A r \in DOMAIN pc :
        \A k \in 1..Len(task[r].origin) :
            task[r].origin[k] = 0 =>
                /\ task[r].List.items[k].kind = "Field"
                /\ starts_with(task[r].List.items[k].label, task[r].MovedPrefix)

\* The Field items of a completion request and the data they carry.
FieldData(r) ==
    {task[r].List.items[k].data : k \in {i \in 1..Len(task[r].origin) : task[r].origin[i] = 0}}

\* C12: the data of every Field item of a completion request decodes to the
\* scope and prefix of the query the request sent, and resolving such an
\* item sends exactly one attrpathInfo query, whose path is that scope
\* followed by the label of the item.
C12_DataRoundTrip ==
    \A r \in DOMAIN pc :
        /\ \A data \in FieldData(r) :
              LET d == DecodeData(data)
              IN  /\ ~d.error /\ d.decoded
                  /\ d.Req = task[r].Query
                  /\ sent[r] = <<[method |-> "attrpathComplete",
                                  Scope |-> d.Req.Scope, Prefix |-> d.Req.Prefix]>>
        /\ (task[r].method = "resolve" /\ pc[r] \in {"acquireInfo", "replyItem", "done"}) =>
              \A q \in ScopeQueries :
                  (task[r].Params.kind = "Field"
                      /\ task[r].Params.data = WriteValue(toJSON(q))) =>
                        sent[r] = <<[method |-> "attrpathInfo",
                                     Scope |-> q.Scope \o <<task[r].Params.label>>,
                                     Prefix |-> <<>>]>>

\* A completion request has replied Field items of a query with a scope and
\* a prefix.
C12_Witness ==
    \E r \in DOMAIN pc :
        /\ pc[r] = "done"
        /\ FieldData(r) # {}
        /\ task[r].Query.Scope # <<>>
        /\ task[r].Query.Prefix # <<>>
        /\ replied[r][1].list.items = task[r].List.items

\* C15: a completion request whose node is not in a package scope sends no
\* query to the evaluator, never waits for it, and neither collects nor
\* replies a Field item: its items are the Keyword and Variable items of
\* the scope provider.
C15_NoPackageScope ==
    \A r \in DOMAIN pc :
        (task[r].method = "completion" /\ ~task[r].havePackageScope) =>
            /\ sent[r] = <<>>
            /\ delivered[r] = <<>>
            /\ \A q \in channel : q.id # r
            /\ pc[r] \notin {"acquire", "fill"}
            /\ \A k \in 1..Len(task[r].List.items) :
                  /\ task[r].List.items[k].kind \in {"Keyword", "Variable"}
                  /\ task[r].origin[k] > 0
            /\ RepliedList(r) => replied[r][1].list.items = task[r].List.items

\* havePackageScope returned false after the scope provider returned, and
\* the items of the scope provider are replied.
C15_Witness ==
    \E r \in DOMAIN pc :
        /\ HasNode(r)
        /\ pc[r] = "done"
        /\ task[r].thrown = 0
        /\ ~task[r].havePackageScope
        /\ RepliedList(r)
        /\ replied[r][1].list.items # <<>>

\* The first n elements of a sequence, or all of it.
Take(s, n) == SubSeq(s, 1, IF Len(s) < n THEN Len(s) ELSE n)

\* The Field items of the names of the reply to request r that start with
\* P, in the order of the reply; none when no reply brought names.
ExternalItems(r, P) ==
    IF task[r].havePackageScope /\ delivered[r] # <<>> /\ delivered[r][1].ok
      THEN LET hits == Filter(delivered[r][1].names, P)
           IN  [k \in 1..Len(hits) |-> FieldItem(hits[k], task[r].Query)]
      ELSE <<>>

\* C16: the replied items are the first min(30, n) elements of the items of
\* the matching bindings, outermost scope first, followed by the items of
\* the names of the evaluator's reply that start with the query prefix, in
\* the order of the reply; n is the length of that concatenation.
C16_SharedBudget ==
    \A r \in DOMAIN pc :
        (HasNode(r) /\ RepliedList(r)) =>
            replied[r][1].list.items
                = Take(ScopeItems(task[r].Env, NodePrefix(r))
                           \o ExternalItems(r, task[r].Query.Prefix), 30)

\* What does hold: the same with the names that start with what the move
\* left of Prefix.
SharedBudgetMoved ==
    \A r \in DOMAIN pc :
        (HasNode(r) /\ RepliedList(r)) =>
            replied[r][1].list.items
                = Take(ScopeItems(task[r].Env, NodePrefix(r))
                           \o ExternalItems(r, task[r].MovedPrefix), 30)

\* The worker of request r is past the scope provider and not inside the
\* loop of completePackages.
PastScopeProvider(r) == ScopeProviderEnded(r) \/ (HasNode(r) /\ pc[r] = "acquire")

\* C19: a completion request sends at most one query, an attrpathComplete,
\* and sends it exactly when the scope provider returned with every
\* matching binding admitted and the node is in package scope. With more
\* than 30 matching bindings it neither sends a query nor waits; with
\* exactly 30 it sends the query and waits, and no Field item is admitted.
C19_QueryIffScopeProviderReturned ==
    \A r \in DOMAIN pc :
        HasNode(r) =>
            /\ Len(sent[r]) <= 1
            /\ \A k \in 1..Len(sent[r]) : sent[r][k].method = "attrpathComplete"
            /\ sent[r] # <<>> <=> task[r].havePackageScope
            /\ pc[r] \in {"acquire", "fill"} => task[r].havePackageScope
            /\ (\E q \in channel : q.id = r) => pc[r] = "acquire" /\ task[r].Ready = 0
            /\ PastScopeProvider(r) =>
                  LET local == Cardinality(LocalMatches(r))
                      admitted == Cardinality({k \in 1..Len(task[r].origin) :
                                                  task[r].origin[k] > 0})
                  IN  /\ task[r].havePackageScope => admitted = local
                      /\ (pc[r] = "havePackageScope") => admitted = local
                      /\ (pc[r] \in {"reply", "done"} /\ ~task[r].havePackageScope
                              /\ task[r].thrown > 0) => local > 30
                      /\ local > 30 => sent[r] = <<>> /\ delivered[r] = <<>>
                      /\ (local = 30 /\ task[r].havePackageScope) =>
                            /\ Len(sent[r]) = 1
                            /\ admitted = Len(task[r].List.items)

\* Exactly 30 bindings match, the query was sent and answered with names,
\* and the first of them was rejected by the bound.
C19_Witness ==
    \E r \in DOMAIN pc :
        /\ HasNode(r)
        /\ pc[r] = "done"
        /\ Cardinality(LocalMatches(r)) = 30
        /\ Len(sent[r]) = 1
        /\ delivered[r][1].ok
        /\ delivered[r][1].names # <<>>
        /\ task[r].thrown = 1
        /\ \A k \in 1..Len(replied[r][1].list.items) : task[r].origin[k] > 0

\* C20: resolving an item with valid data changes only its detail and its
\* documentation: the item the worker holds and the item replied have the
\* label, the kind and the data of the item of the request, whatever the
\* evaluator answered.
C20_ResolveFrame ==
    \A r \in DOMAIN pc :
        (task[r].method = "resolve" /\ ValidData(task[r].Params.data)) =>
            /\ pc[r] \in {"acquireInfo", "replyItem"} =>
                  /\ task[r].Resp.label = task[r].Params.label
                  /\ task[r].Resp.kind = task[r].Params.kind
                  /\ task[r].Resp.data = task[r].Params.data
            /\ \A k \in 1..Len(replied[r]) :
                  /\ replied[r][k].tag = "item"
                  /\ replied[r][k].item.label = task[r].Params.label
                  /\ replied[r][k].item.kind = task[r].Params.kind
                  /\ replied[r][k].item.data = task[r].Params.data
            /\ pc[r] = "done" => Len(replied[r]) = 1

\* A Field item with valid data is replied with a detail and a
\* documentation it did not have, after the evaluator answered with every
\* field of the description.
C20_Witness ==
    \E r \in DOMAIN pc :
        /\ task[r].method = "resolve"
        /\ ValidData(task[r].Params.data)
        /\ task[r].Params.kind = "Field"
        /\ pc[r] = "done"
        /\ delivered[r][1].ok
        /\ delivered[r][1].desc.Version # <<>>
        /\ delivered[r][1].desc.LongDescription # <<>>
        /\ replied[r][1].item.detail # task[r].Params.detail
        /\ replied[r][1].item.documentation # task[r].Params.documentation

\* C13: with a fair pool and an evaluator that invokes the callback of every
\* query, every request posted to the pool is replied to, and no request
\* ever has more than one reply: a request that is done has exactly one.
C13_ExactlyOneReply ==
    \A r \in ConcRequests :
        /\ [](pc[r] = "posted" => <>(pc[r] = "done" /\ Len(replied[r]) = 1))
        /\ [](Len(replied[r]) <= 1)
        /\ [](Len(replied[r]) = 1 <=> pc[r] = "done")

\* Both requests are done, each with one reply, after a completion and a
\* resolve request each waited for the evaluator, of which one answer was a
\* failure.
C13_Witness ==
    /\ \A r \in DOMAIN pc : pc[r] = "done" /\ Len(replied[r]) = 1
    /\ \E a, b \in DOMAIN pc :
          /\ task[a].method = "completion" /\ Len(delivered[a]) = 1
          /\ task[b].method = "resolve" /\ Len(delivered[b]) = 1
          /\ ~delivered[b][1].ok

\* Request r waits for the callback of a query it sent.
Blocked(r) ==
    /\ pc[r] \in {"acquire", "acquireInfo"}
    /\ task[r].Ready = 0
    /\ \E q \in channel : q.id = r

\* C14: the dispatch thread can accept a completion and a resolve request
\* in every state, whatever queries are unanswered; a request it accepted
\* is only posted, with nothing sent to the evaluator; and every unanswered
\* query belongs to a task that runs on the pool.
C14_DispatchNeverBlocked ==
    \A r \in DOMAIN pc :
        /\ pc[r] = "free" =>
              /\ ENABLED onCompletion(r)
              /\ ENABLED onCompletionItemResolve(r)
        /\ pc[r] \in {"free", "posted"} =>
              /\ sent[r] = <<>>
              /\ replied[r] = <<>>
              /\ \A q \in channel : q.id # r
        /\ (\E q \in channel : q.id = r) => r \in Running /\ Blocked(r)

\* A worker waits for an unanswered query, no query has been answered, and
\* the dispatch thread has yet to accept the other request.
C14_Witness ==
    \E a, b \in DOMAIN pc :
        /\ Blocked(a)
        /\ pc[b] = "free"
        /\ \A r \in DOMAIN pc : delivered[r] = <<>>

\* The worker of request r has returned from the acquire of the query it
\* sent.
PastAcquire(r) ==
    /\ sent[r] # <<>>
    /\ pc[r] \in {"fill", "catch", "reply", "replyItem", "done"}

\* In every state: a request that sent a query is past its acquire, or has
\* replied, only after the callback of that query ran, and the Names or
\* the Desc its worker reads are what that callback wrote (nothing on a
\* failure); a waiting worker holds a thread and has not replied.
BridgeOrder ==
    \A r \in DOMAIN pc :
        /\ Len(delivered[r]) <= Len(sent[r])
        /\ Len(sent[r]) <= 1
        /\ (PastAcquire(r) \/ (sent[r] # <<>> /\ replied[r] # <<>>)) =>
              /\ Len(delivered[r]) = 1
              /\ \A q \in channel : q.id # r
              /\ task[r].method = "completion" =>
                    task[r].Names = IF delivered[r][1].ok THEN delivered[r][1].names
                                                          ELSE <<>>
              /\ task[r].method = "resolve" =>
                    task[r].PkgDesc = IF delivered[r][1].ok THEN delivered[r][1].desc
                                                            ELSE EmptyDesc
        /\ (pc[r] \in {"acquire", "acquireInfo"} /\ task[r].Ready = 0) => Blocked(r)
        /\ Blocked(r) => r \in Running /\ replied[r] = <<>> /\ delivered[r] = <<>>

\* In every step: a waiting worker stays where it is, with no reply, unless
\* the step is the callback of its query.
BlockedUntilCallback ==
    \A r \in DOMAIN pc :
        Blocked(r) =>
            \/ /\ pc'[r] = pc[r]
               /\ replied'[r] = replied[r]
               /\ task'[r] = task[r]
               /\ Blocked(r)'
            \/ /\ Len(delivered'[r]) = Len(delivered[r]) + 1
               /\ task'[r].Ready = 1
               /\ pc'[r] = pc[r]
               /\ replied'[r] = replied[r]

\* C17: a request that sent an attrpathComplete or attrpathInfo query
\* replies only after the callback of the query ran, its worker reads the
\* data the callback wrote, and as long as the callback has not run the
\* worker stays blocked on a pool thread and the request has no reply.
C17_BlockingBridge == []BridgeOrder /\ [][BlockedUntilCallback]_vars

\* One request has replied the names its callback wrote while the worker of
\* the other still waits for its callback.
C17_Witness ==
    \E a, b \in DOMAIN pc :
        /\ Blocked(b)
        /\ pc[a] = "done"
        /\ task[a].method = "completion"
        /\ Len(delivered[a]) = 1
        /\ delivered[a][1].ok
        /\ task[a].Names = delivered[a][1].names
        /\ \E k \in 1..Len(replied[a][1].list.items) :
              replied[a][1].list.items[k].kind = "Field"

\* The reply of request r as its own inputs and the answer to its own query
\* determine it: the outcome of the lookup, the node, the chain, the query
\* and what the move left of Prefix, or the item to resolve.
ExpectedReply(r) ==
    IF task[r].method = "completion"
      THEN IF task[r].lookup = "no node" THEN NoNodeError
           ELSE IF task[r].lookup # "node" THEN ErrorReply(task[r].lookup)
           ELSE LET all == ScopeItems(task[r].Env, NodePrefix(r))
                               \o ExternalItems(r, task[r].MovedPrefix)
                IN  ListReply([isIncomplete |-> Len(all) > 30, items |-> Take(all, 30)])
      ELSE IF task[r].Params.data = <<>> THEN ItemReply(task[r].Params)
           ELSE IF ~parse(task[r].Params.data).ok THEN ErrorReply("json parse error")
           ELSE ItemReply(Format(task[r].Params,
                                 IF delivered[r] # <<>> /\ delivered[r][1].ok
                                   THEN delivered[r][1].desc ELSE EmptyDesc))

\* In every state: the reply of a request is the one its own inputs
\* determine, and its Field items are names of the answer to its own query.
AsIfAlone ==
    \A r \in DOMAIN pc :
        /\ pc[r] = "done" => replied[r] = <<ExpectedReply(r)>>
        /\ \A k \in 1..Len(task[r].origin) :
              task[r].origin[k] = 0 =>
                  /\ delivered[r] # <<>>
                  /\ \E n \in 1..Len(delivered[r][1].names) :
                        delivered[r][1].names[n] = task[r].List.items[k].label

\* In every step: one request moves, and nothing of any other request
\* changes, its unanswered query included.
OneRequestPerStep ==
    \E r \in DOMAIN pc :
        \A o \in DOMAIN pc \ {r} :
            /\ pc'[o] = pc[o]
            /\ task'[o] = task[o]
            /\ sent'[o] = sent[o]
            /\ delivered'[o] = delivered[o]
            /\ replied'[o] = replied[o]
            /\ {q \in channel' : q.id = o} = {q \in channel : q.id = o}

\* C18: with two requests in flight and evaluator answers in any order,
\* the reply of each request is the one it gives alone on the same inputs,
\* its Field items are names of the answer to its own query, and no step of
\* a request, an error reply or a failed answer included, changes anything
\* of the other request.
C18_Independent == []AsIfAlone /\ [][OneRequestPerStep]_vars

\* Two completion requests had their queries unanswered together; one got
\* names and replied Field items, the other got a failure and replied only
\* local items.
C18_Witness ==
    \E a, b \in DOMAIN pc :
        /\ pc[a] = "done" /\ pc[b] = "done"
        /\ task[a].method = "completion" /\ task[b].method = "completion"
        /\ Len(delivered[a]) = 1 /\ delivered[a][1].ok
        /\ Len(delivered[b]) = 1 /\ ~delivered[b][1].ok
        /\ \E k \in 1..Len(task[a].origin) : task[a].origin[k] = 0
        /\ \A k \in 1..Len(task[b].origin) : task[b].origin[k] > 0
        /\ replied[b][1].list.items # <<>>

====
